---------------------------- MODULE Spec2Model ----------------------------
(***************************************************************************)
(* A model of passgen.py: the deterministic password derivation (site key, *)
(* tags, base strengthening, pool/symbol selection, classic and            *)
(* interleaved assembly) and the control flow of main().                   *)
(*                                                                         *)
(* A Python str is modelled as a sequence of one-character strings, so "ab"*)
(* is <<"a", "b">> and "" is <<>>.  A value that Python holds as None or   *)
(* as "" and only ever tests for truthiness is modelled as <<>>.  The      *)
(* model's alphabet is ASCII: letters, digits, punctuation and the ten      *)
(* ASCII characters that str.strip() treats as whitespace.                 *)
(***************************************************************************)
EXTENDS Integers, Sequences, FiniteSets, TLC

VARIABLES
    args,    \* the argparse Namespace of the run (or a function's arguments)
    env,     \* the process environment: the four PASSGEN_* variables
    pc,      \* the position of the run inside main (or "call"/"ret")
    loc,     \* the local variables of main (or a function's results)
    stdout,  \* the line printed to standard output, <<>> if none
    stderr,  \* the kinds of the diagnostics (or traceback) written to standard
             \* error so far, in order
    rc,      \* the exit status of the process, -1 while main is running
    trace,   \* the steps of main executed so far, in order
    prev     \* the previous successful run: its inputs and its password

vars == <<args, env, pc, loc, stdout, stderr, rc, trace, prev>>

---------------------------------------------------------------------------
(* Characters and Python's str primitives                                  *)

LowerCase == <<"a", "b", "c", "d", "e", "f", "g", "h", "i", "j", "k", "l", "m",
               "n", "o", "p", "q", "r", "s", "t", "u", "v", "w", "x", "y", "z">>
UpperCase == <<"A", "B", "C", "D", "E", "F", "G", "H", "I", "J", "K", "L", "M",
               "N", "O", "P", "Q", "R", "S", "T", "U", "V", "W", "X", "Y", "Z">>
DigitChars == <<"0", "1", "2", "3", "4", "5", "6", "7", "8", "9">>
\* The ASCII characters c with c.isspace(), the ones str.strip() removes:
\* space, \t, \n, \f, \r, and (written as the characters themselves) the
\* vertical tab 0x0b and the separators 0x1c, 0x1d, 0x1e, 0x1f.
Whitespace == {" ", "\t", "\n", "\f", "\r", "", "", "", "", ""}

Range(s) == {s[i] : i \in 1..Len(s)}
Min(a, b) == IF a < b THEN a ELSE b
Max(a, b) == IF a > b THEN a ELSE b
IndexIn(seq, ch) == CHOOSE i \in 1..Len(seq) : seq[i] = ch

\* ord(ch) - 96 for a lowercase letter: its 1-based place in the alphabet
LetterPos(ch) == IndexIn(LowerCase, ch)
\* int(c) for a decimal digit
DigitVal(ch) == IndexIn(DigitChars, ch) - 1
IsDigit(ch) == ch \in Range(DigitChars)

\* str.lower() / str.upper() on one character
LowerCh(ch) == IF ch \in Range(UpperCase) THEN LowerCase[IndexIn(UpperCase, ch)] ELSE ch
UpperCh(ch) == IF ch \in Range(LowerCase) THEN UpperCase[IndexIn(LowerCase, ch)] ELSE ch
Lower(s) == [i \in 1..Len(s) |-> LowerCh(s[i])]

\* s[a:b] for 0 <= a, 0 <= b: Python clips both ends to len(s)
Slice(s, a, b) == SubSeq(s, Min(a, Len(s)) + 1, Min(b, Len(s)))
\* s[a:] and s[-n:]
SliceFrom(s, a) == Slice(s, a, Len(s))
LastN(s, n) == SliceFrom(s, Max(Len(s) - n, 0))

StartsWith(s, p) == Len(s) >= Len(p) /\ SubSeq(s, 1, Len(p)) = p

\* str.strip(): leading and trailing whitespace removed
RECURSIVE LStrip(_)
LStrip(s) == IF s # <<>> /\ Head(s) \in Whitespace THEN LStrip(Tail(s)) ELSE s
RECURSIVE RStrip(_)
RStrip(s) ==
    IF s # <<>> /\ s[Len(s)] \in Whitespace THEN RStrip(SubSeq(s, 1, Len(s) - 1)) ELSE s
Strip(s) == RStrip(LStrip(s))

\* str.split(sep) for a one-character separator: always at least one part
RECURSIVE Split(_, _)
Split(s, sep) ==
    IF sep \notin Range(s) THEN <<s>>
    ELSE LET i == CHOOSE k \in 1..Len(s) :
                      s[k] = sep /\ \A j \in 1..(k - 1) : s[j] # sep
         IN  <<SubSeq(s, 1, i - 1)>> \o Split(SubSeq(s, i + 1, Len(s)), sep)

\* ";".join(parts)
RECURSIVE Join(_)
Join(parts) ==
    IF parts = <<>> THEN <<>>
    ELSE IF Len(parts) = 1 THEN parts[1]
    ELSE parts[1] \o <<";">> \o Join(Tail(parts))

\* the decimal digits of n >= 0
RECURSIVE Decimal(_)
Decimal(n) ==
    IF n < 10 THEN <<DigitChars[n + 1]>>
    ELSE Decimal(n \div 10) \o <<DigitChars[(n % 10) + 1]>>
\* f"{n:02d}": zero-padded on the left to a width of at least 2
Format02d(n) == IF n < 10 THEN <<"0">> \o Decimal(n) ELSE Decimal(n)

---------------------------------------------------------------------------
(* Constants                                                               *)

Q_DEFAULT == <<"!", "@", "#", "$", "%", "^", "&", "*", "+", "?">>
P_DEFAULT == <<"!", "@", "#", "$", "%", "^", "&", "*", "+", "?">>
EX_USAGE == 2
EX_INTERRUPT == 130
EX_OK == 0
\* if not (3 <= args.pool_size <= 8)
MIN_POOL_SIZE == 3
MAX_POOL_SIZE == 8

---------------------------------------------------------------------------
(* The helper functions of the algorithm                                   *)

only_letters(s) == SelectSeq(Lower(s), LAMBDA ch : ch \in Range(LowerCase))

is_letter(ch) == ch \in Range(LowerCase) \/ ch \in Range(UpperCase)

is_upper(ch) == ch \in Range(UpperCase)

RECURSIVE sum_letter_positions(_)
sum_letter_positions(s) ==
    IF s = <<>> THEN 0
    ELSE (IF LowerCh(Head(s)) \in Range(LowerCase) THEN LetterPos(LowerCh(Head(s))) ELSE 0)
         + sum_letter_positions(Tail(s))

RECURSIVE sum_digits(_)
sum_digits(s) ==
    IF s = <<>> THEN 0
    ELSE (IF IsDigit(Head(s)) THEN DigitVal(Head(s)) ELSE 0) + sum_digits(Tail(s))

capitalize_1_3(s) ==
    [i \in 1..Len(s) |->
        IF (i - 1) \in {0, 2} /\ is_letter(s[i]) THEN UpperCh(s[i])
        ELSE IF is_letter(s[i]) THEN LowerCh(s[i]) ELSE s[i]]

\* re.sub(r"^https?://", "", d)
StripScheme(d) ==
    IF StartsWith(d, <<"h", "t", "t", "p", ":", "/", "/">>) THEN SliceFrom(d, 7)
    ELSE IF StartsWith(d, <<"h", "t", "t", "p", "s", ":", "/", "/">>) THEN SliceFrom(d, 8)
    ELSE d

\* site_key returning the last label (the zone) instead of the second-to-last
site_key_last_label(domain) ==
    LET d     == Split(StripScheme(Lower(Strip(domain))), "/")[1]
        parts == Split(d, ".")
    IN  parts[Len(parts)]

site_key(domain) ==
    LET d     == Split(StripScheme(Lower(Strip(domain))), "/")[1]
        parts == Split(d, ".")
    IN  IF Len(parts) >= 2 THEN parts[Len(parts) - 1] ELSE parts[1]

\* tag4_from_key padding with two 'x' instead of four
tag4_from_key_short_pad(k) ==
    LET letters == only_letters(k)
    IN  IF Len(letters) >= 4 THEN Slice(letters, 0, 2) \o LastN(letters, 2)
        ELSE Slice(letters \o <<"x", "x">>, 0, 4)

tag4_from_key(k) ==
    LET letters == only_letters(k)
    IN  IF Len(letters) >= 4 THEN Slice(letters, 0, 2) \o LastN(letters, 2)
        ELSE Slice(letters \o <<"x", "x", "x", "x">>, 0, 4)

u4_from_login(login) ==
    LET loc0    == Split(login, "@")[1]
        letters == only_letters(loc0)
    IN  IF Len(letters) >= 4 THEN Slice(letters, 0, 2) \o LastN(letters, 2)
        ELSE Slice(letters \o <<"x", "x", "x", "x">>, 0, 4)

l2_from_key(k) == Format02d(Len(k) % 100)

\* The loop of build_strengthened_base from position j on, with the loop's
\* state: qi insertions made so far and prev the previous character.
RECURSIVE StrengthenFrom(_, _, _, _, _)
StrengthenFrom(s0, q_seq, j, qi, prevch) ==
    IF j > Len(s0) THEN <<>>
    ELSE LET ch == s0[j]
             ins == is_letter(ch)
                    /\ (~is_letter(prevch) \/ (is_upper(prevch) # is_upper(ch)))
         IN  (IF ins THEN <<q_seq[(qi % Len(q_seq)) + 1]>> ELSE <<>>)
             \o <<ch>>
             \o StrengthenFrom(s0, q_seq, j + 1, IF ins THEN qi + 1 ELSE qi, ch)

\* build_strengthened_base that inserts only after a non-letter and misses
\* the change of case
RECURSIVE StrengthenNoCaseFrom(_, _, _, _, _)
StrengthenNoCaseFrom(s0, q_seq, j, qi, prevch) ==
    IF j > Len(s0) THEN <<>>
    ELSE LET ch == s0[j]
             ins == is_letter(ch) /\ ~is_letter(prevch)
         IN  (IF ins THEN <<q_seq[(qi % Len(q_seq)) + 1]>> ELSE <<>>)
             \o <<ch>>
             \o StrengthenNoCaseFrom(s0, q_seq, j + 1, IF ins THEN qi + 1 ELSE qi, ch)

build_strengthened_base_no_case(s0, q_seq) == StrengthenNoCaseFrom(s0, q_seq, 1, 0, "")

build_strengthened_base(s0, q_seq) == StrengthenFrom(s0, q_seq, 1, 0, "")

\* p_seq[idx] raises IndexError when idx >= len(p_seq); exc names the exception
compute_sym(T, U, year_full, p_seq, r_shift) ==
    LET sumT == sum_letter_positions(T)
        sumU == sum_letter_positions(U)
        sy   == sum_digits(year_full)
        idx  == (sumT + sumU + sy + r_shift) % 10
    IN  IF idx < Len(p_seq)
        THEN [exc |-> "", sym |-> p_seq[idx + 1], idx |-> idx, sy |-> sy]
        ELSE [exc |-> "IndexError", sym |-> "", idx |-> idx, sy |-> sy]

\* choose_pool_index that leaves the shift out of the sum
choose_pool_index_no_shift(Kletters, Uletters, r_shift, pool_size) ==
    LET SK == sum_letter_positions(Kletters)
        SU == sum_letter_positions(Uletters)
    IN  (SK + SU) % pool_size

choose_pool_index(Kletters, Uletters, r_shift, pool_size) ==
    LET SK == sum_letter_positions(Kletters)
        SU == sum_letter_positions(Uletters)
    IN  (SK + SU + r_shift) % pool_size

\* cut_sstar_for_interleave whose remainder starts one character late
cut_sstar_off_by_one(sstar, idx, syear) ==
    LET d1 == (idx % 4) + 2
        d2 == (syear % 3) + 2
    IN  <<Slice(sstar, 0, d1), Slice(sstar, d1, d1 + d2), SliceFrom(sstar, d1 + d2 + 1)>>

cut_sstar_for_interleave(sstar, idx, syear) ==
    LET d1 == (idx % 4) + 2
        d2 == (syear % 3) + 2
    IN  <<Slice(sstar, 0, d1), Slice(sstar, d1, d1 + d2), SliceFrom(sstar, d1 + d2)>>

assemble_interleaved(sstar, sym, Tcap, L2, Y2, Ucap, idx, syear) ==
    LET S == cut_sstar_for_interleave(sstar, idx, syear)
    IN  <<sym>> \o S[1] \o Tcap \o S[2] \o L2 \o S[3] \o Y2 \o Ucap

assemble_classic(sstar, sym, Tcap, L2, Y2, Ucap) ==
    sstar \o <<sym>> \o Tcap \o L2 \o Y2 \o Ucap

\* pepper_to_shift without the reduction modulo the pool size
pepper_to_shift_no_mod(pepper_word, pool_size) == sum_letter_positions(pepper_word)

pepper_to_shift(pepper_word, pool_size) == sum_letter_positions(pepper_word) % pool_size

\* re.fullmatch(r"\d{2,4}", year_full)
YearMatches(year_full) ==
    Len(year_full) \in 2..4 /\ \A i \in 1..Len(year_full) : IsDigit(year_full[i])

\* [s for s in text.split(";") if s]
ParsePool(text) == SelectSeq(Split(text, ";"), LAMBDA s : s # <<>>)

---------------------------------------------------------------------------
(* The inputs of a run of main                                             *)

MaxPoolSizeArg == 9     \* --pool-size ranges over 2..MaxPoolSizeArg
MaxPoolLen == 5         \* a pool given as text holds up to MaxPoolLen entries
MaxShortAnswers == 2    \* too-short answers the user gives at the prompts of a run

PoolSizeArgs == 2..MaxPoolSizeArg

\* The pool the user has memorised: entry i (from 1), each 10 characters long.
MemoEntry(i) ==
    IF i = 1 THEN <<"A", "l", "p", "h", "a", "1", "2", "3", "4", "5">>
    ELSE IF i = 2 THEN <<"B", "e", "t", "a", "6", "7", "8", "9", "0", "1">>
    ELSE IF i = 3 THEN <<"G", "a", "m", "m", "a", "2", "3", "4", "5", "6">>
    ELSE <<"D", "e", "l", "t", "a">> \o Format02d(i) \o <<"x", "Y", "z">>
MemoPool(n) == [i \in 1..n |-> MemoEntry(i)]
\* What the user may type instead at a prompt: too short for S*, and for S0
MediumSecret == <<"A", "b", "c", "d", "e", "f", "7">>
ShortSecret == <<"a", "b", "c">>
PepperWord == <<"p", "e", "p", "p", "e", "r">>

\* What the user types at the prompt for entry i (from 1) of the pool: the
\* memorised entry or, while fewer than MaxShortAnswers diagnostics of the
\* kind have been printed (err is standard error so far), a too-short answer.
ShortAnswers(err) == Len(SelectSeq(err, LAMBDA kind : kind = "SecretTooShort"))
TypedAtPrompt(i, short, err) ==
    {MemoEntry(i)} \cup (IF ShortAnswers(err) < MaxShortAnswers THEN {short} ELSE {})

YandexRu == <<"y", "a", "n", "d", "e", "x", ".", "r", "u">>
UserGmail == <<"u", "s", "e", "r", "@", "g", "m", "a", "i", "l", ".", "c", "o", "m">>
\* (domain, login, year) of a run
Identities ==
    { <<YandexRu, UserGmail, <<"2", "0", "0", "5">> >>,
      << <<"h", "t", "t", "p", "s", ":", "/", "/", "M", "y", ".", "a", "b", ".", "i", "o", "/", "x">>,
         <<"B", "o", "7">>, <<" ", "9", "9">> >>,
      <<YandexRu, <<"B", "o", "7">>, <<"2", "0", "o", "5">> >>,
      << <<".", "r", "u">>, UserGmail, <<"5">> >>,
      << <<"\t">> \o YandexRu \o <<"\r", "\n">>, UserGmail,
         <<"\t", "2", "0", "0", "5", "\n">> >> }
ShortP == <<"!", "@", "#">>
LongP == <<"a", "b", "c", "d", "e", "f", "g", "h", "i", "j", "k", "l">>
ShortQ == <<"-", "_">>

\* How the pool reaches the run: the two prompt flags, --sstar-pool and
\* PASSGEN_SSTAR_POOL.
PoolChannels ==
    { [ask_sstar |-> TRUE, ask_s0 |-> FALSE, arg |-> <<>>, env |-> <<>>],
      [ask_sstar |-> FALSE, ask_s0 |-> TRUE, arg |-> <<>>, env |-> <<>>],
      [ask_sstar |-> TRUE, ask_s0 |-> TRUE, arg |-> Join(MemoPool(3)), env |-> <<>>],
      [ask_sstar |-> FALSE, ask_s0 |-> FALSE, arg |-> <<>>, env |-> <<>>],
      [ask_sstar |-> FALSE, ask_s0 |-> FALSE, arg |-> <<";">> \o Join(MemoPool(3)) \o <<";", ";">>,
       env |-> Join(MemoPool(MaxPoolLen))],
      [ask_sstar |-> FALSE, ask_s0 |-> FALSE, arg |-> <<>>, env |-> Join(MemoPool(4))] }
    \cup { [ask_sstar |-> FALSE, ask_s0 |-> FALSE, arg |-> Join(MemoPool(n)), env |-> <<>>] :
             n \in 2..MaxPoolLen }

\* How the pepper reaches the run: --pepper-ask, --pepper and PASSGEN_PEPPER.
PepperChannels ==
    { [ask |-> TRUE, arg |-> <<>>, env |-> <<>>],
      [ask |-> FALSE, arg |-> PepperWord, env |-> <<"z">>],
      [ask |-> FALSE, arg |-> <<>>, env |-> PepperWord],
      [ask |-> FALSE, arg |-> <<>>, env |-> <<>>] }

\* How Q and P reach the run: --q-seq, --p-seq, PASSGEN_Q_SEQ, PASSGEN_P_SEQ.
SeqChannels ==
    { [q_arg |-> <<>>, p_arg |-> <<>>, q_env |-> <<>>, p_env |-> <<>>],
      [q_arg |-> ShortQ, p_arg |-> ShortP, q_env |-> <<>>, p_env |-> <<>>],
      [q_arg |-> <<>>, p_arg |-> ShortP, q_env |-> ShortQ, p_env |-> LongP] }

NoLocals ==
    [q_seq |-> <<>>, p_seq |-> <<>>, year_full |-> <<>>, Y2 |-> <<>>, syear |-> -1,
     K |-> <<>>, Kletters |-> <<>>, T |-> <<>>, Tcap |-> <<>>, L2 |-> <<>>,
     U |-> <<>>, Ucap |-> <<>>, Uletters_full |-> <<>>,
     pool |-> <<>>, pepper |-> <<>>, r_shift |-> -1, i |-> -1, sstar |-> <<>>,
     sym |-> "", idx |-> -1, password |-> <<>>]

NoPrev ==
    [set |-> FALSE, domain |-> <<>>, login |-> <<>>, year |-> <<>>, pool |-> <<>>,
     pepper |-> <<>>, q_seq |-> <<>>, p_seq |-> <<>>, classic |-> FALSE,
     pool_size |-> -1, password |-> <<>>]

\* parse_args: the Namespace of a command line
Namespace(d, l, y, c, n, pl, pp, sq) ==
    [login |-> l, domain |-> d, year |-> y, classic |-> c, pool_size |-> n,
     ask_sstar_pool |-> pl.ask_sstar, ask_s0_pool |-> pl.ask_s0, sstar_pool |-> pl.arg,
     pepper_ask |-> pp.ask, pepper |-> pp.arg, q_seq |-> sq.q_arg, p_seq |-> sq.p_arg]

Environ(pl, pp, sq) ==
    [PASSGEN_Q_SEQ |-> sq.q_env, PASSGEN_P_SEQ |-> sq.p_env,
     PASSGEN_SSTAR_POOL |-> pl.env, PASSGEN_PEPPER |-> pp.env]

Init ==
    /\ \E id \in Identities, c \in BOOLEAN, n \in PoolSizeArgs,
          pl \in PoolChannels, pp \in PepperChannels, sq \in SeqChannels :
          /\ args = Namespace(id[1], id[2], id[3], c, n, pl, pp, sq)
          /\ env = Environ(pl, pp, sq)
    /\ pc = "check_pool_size"
    /\ loc = NoLocals
    /\ stdout = <<>>
    /\ stderr = <<>>
    /\ rc = -1
    /\ trace = <<>>
    /\ prev = NoPrev

---------------------------------------------------------------------------
(* main, step by step                                                      *)

\* print(msg, file=sys.stderr); return EX_USAGE
Fail(step, kind) ==
    /\ stderr' = Append(stderr, kind)
    /\ rc' = EX_USAGE
    /\ pc' = "done"
    /\ trace' = Append(trace, step)
    /\ UNCHANGED <<args, env, stdout, prev>>

Goto(step, next) ==
    /\ pc' = next
    /\ trace' = Append(trace, step)
    /\ UNCHANGED <<args, env, stdout, stderr, rc, prev>>

CheckPoolSize ==
    /\ pc = "check_pool_size"
    /\ IF ~(MIN_POOL_SIZE <= args.pool_size /\ args.pool_size <= MAX_POOL_SIZE)
       THEN Fail("check_pool_size", "PoolSizeOutOfRange") /\ UNCHANGED loc
       ELSE Goto("check_pool_size", "resolve_seqs") /\ UNCHANGED loc

\* q_seq, p_seq: environment, then argument, then default
ResolveSeqs ==
    /\ pc = "resolve_seqs"
    /\ loc' = [loc EXCEPT
          !.q_seq = IF env.PASSGEN_Q_SEQ # <<>> THEN env.PASSGEN_Q_SEQ
                    ELSE IF args.q_seq # <<>> THEN args.q_seq ELSE Q_DEFAULT,
          !.p_seq = IF env.PASSGEN_P_SEQ # <<>> THEN env.PASSGEN_P_SEQ
                    ELSE IF args.p_seq # <<>> THEN args.p_seq ELSE P_DEFAULT]
    /\ Goto("resolve_seqs", "check_year")

CheckYear ==
    /\ pc = "check_year"
    /\ LET year_full == Strip(args.year)
       IN  IF ~YearMatches(year_full)
           THEN /\ loc' = [loc EXCEPT !.year_full = year_full]
                /\ Fail("check_year", "InvalidYearFormat")
           ELSE /\ loc' = [loc EXCEPT !.year_full = year_full,
                                      !.Y2 = LastN(year_full, 2),
                                      !.syear = sum_digits(year_full)]
                /\ Goto("check_year", "derive_tags")

DeriveTags ==
    /\ pc = "derive_tags"
    /\ LET K == site_key(args.domain)
           T == tag4_from_key(K)
           U == u4_from_login(args.login)
       IN  loc' = [loc EXCEPT !.K = K, !.Kletters = only_letters(K), !.T = T,
                              !.Tcap = capitalize_1_3(T), !.L2 = l2_from_key(K),
                              !.U = U, !.Ucap = capitalize_1_3(U),
                              !.Uletters_full = only_letters(Split(args.login, "@")[1])]
    /\ Goto("derive_tags", "get_pool")

\* An exception that leaves main other than KeyboardInterrupt is caught
\* nowhere: the interpreter prints the traceback to standard error and the
\* process exits with status 1.
Uncaught(exc) ==
    /\ stderr' = Append(stderr, exc)
    /\ rc' = 1
    /\ pc' = "done"
    /\ UNCHANGED <<args, env, loc, stdout, prev>>

\* except KeyboardInterrupt: the user interrupts the program while getpass
\* waits for an answer.
KeyboardInterrupt ==
    /\ stderr' = Append(stderr, "Interrupted")
    /\ rc' = EX_INTERRUPT
    /\ pc' = "done"
    /\ UNCHANGED <<args, env, loc, stdout, trace, prev>>

\* getpass at the end of the input
EOFError == Uncaught("EOFError") /\ UNCHANGED trace

\* print("...", file=sys.stderr) inside a prompt loop: the prompt is repeated
TooShort ==
    /\ stderr' = Append(stderr, "SecretTooShort")
    /\ UNCHANGED <<args, env, pc, loc, stdout, rc, trace, prev>>

\* pool.append(s); the function returns once the pool holds n entries
Accept(entry) ==
    /\ loc' = [loc EXCEPT !.pool = Append(@, entry)]
    /\ pc' = IF Len(loc.pool) + 1 = args.pool_size THEN "check_pool_len" ELSE pc
    /\ UNCHANGED <<args, env, stdout, stderr, rc, trace, prev>>

GetPool ==
    /\ pc = "get_pool"
    /\ IF args.ask_sstar_pool
       THEN /\ loc' = [loc EXCEPT !.pool = <<>>]
            /\ Goto("get_pool", "ask_pool_sstar")
       ELSE IF args.ask_s0_pool
       THEN /\ loc' = [loc EXCEPT !.pool = <<>>]
            /\ Goto("get_pool", "ask_pool_s0_and_build")
       ELSE IF args.sstar_pool # <<>>
       THEN /\ loc' = [loc EXCEPT !.pool = ParsePool(args.sstar_pool)]
            /\ Goto("get_pool", "check_pool_len")
       ELSE IF env.PASSGEN_SSTAR_POOL # <<>>
       THEN /\ loc' = [loc EXCEPT !.pool = ParsePool(env.PASSGEN_SSTAR_POOL)]
            /\ Goto("get_pool", "check_pool_len")
       ELSE Fail("get_pool", "PoolNotGiven") /\ UNCHANGED loc

\* One getpass of ask_pool_sstar: an answer of fewer than 10 characters is
\* rejected with a diagnostic and the prompt is repeated.
ask_pool_sstar ==
    /\ pc = "ask_pool_sstar"
    /\ \/ \E s \in TypedAtPrompt(Len(loc.pool) + 1, MediumSecret, stderr) :
             IF Len(s) >= 10 THEN Accept(s) ELSE TooShort
       \/ KeyboardInterrupt
       \/ EOFError

\* One getpass of ask_pool_s0_and_build: an answer of fewer than 6 characters
\* is rejected; an accepted S0 enters the pool strengthened.
ask_pool_s0_and_build ==
    /\ pc = "ask_pool_s0_and_build"
    /\ \/ \E s0 \in TypedAtPrompt(Len(loc.pool) + 1, ShortSecret, stderr) :
             IF Len(s0) >= 6 THEN Accept(build_strengthened_base(s0, loc.q_seq))
             ELSE TooShort
       \/ KeyboardInterrupt
       \/ EOFError

\* if len(pool) < args.pool_size
CheckPoolLen ==
    /\ pc = "check_pool_len"
    /\ IF Len(loc.pool) < args.pool_size
       THEN Fail("check_pool_len", "PoolUnderfilled") /\ UNCHANGED loc
       ELSE Goto("check_pool_len", "get_pepper") /\ UNCHANGED loc

GetPepper ==
    /\ pc = "get_pepper"
    /\ IF args.pepper_ask
       THEN Goto("get_pepper", "ask_pepper") /\ UNCHANGED loc
       ELSE LET pepper == IF args.pepper # <<>> THEN args.pepper ELSE env.PASSGEN_PEPPER
            IN  IF pepper = <<>>
                THEN Fail("get_pepper", "EmptyPepper") /\ UNCHANGED loc
                ELSE /\ loc' = [loc EXCEPT !.pepper = pepper]
                     /\ Goto("get_pepper", "pepper_to_shift")

\* pepper = getpass(...); if not pepper: ... return EX_USAGE
AskPepper ==
    /\ pc = "ask_pepper"
    /\ \/ \E pepper \in {PepperWord, <<>>} :
             IF pepper = <<>>
             THEN /\ stderr' = Append(stderr, "EmptyPepper")
                  /\ rc' = EX_USAGE
                  /\ pc' = "done"
                  /\ UNCHANGED <<args, env, loc, stdout, trace, prev>>
             ELSE /\ loc' = [loc EXCEPT !.pepper = pepper]
                  /\ pc' = "pepper_to_shift"
                  /\ UNCHANGED <<args, env, stdout, stderr, rc, trace, prev>>
       \/ KeyboardInterrupt
       \/ EOFError

PepperToShift ==
    /\ pc = "pepper_to_shift"
    /\ loc' = [loc EXCEPT !.r_shift = pepper_to_shift(loc.pepper, args.pool_size)]
    /\ Goto("pepper_to_shift", "choose_pool_index")

ChoosePoolIndex ==
    /\ pc = "choose_pool_index"
    /\ LET i == choose_pool_index(loc.Kletters, loc.Uletters_full, loc.r_shift, args.pool_size)
       IN  loc' = [loc EXCEPT !.i = i, !.sstar = loc.pool[i + 1]]
    /\ Goto("choose_pool_index", "compute_sym")

\* ComputeSym that reports a too-short P as a usage error, after the shift
\* and the pool index have been computed
ComputeSymUsageError ==
    /\ pc = "compute_sym"
    /\ LET res == compute_sym(loc.T, loc.U, loc.year_full, loc.p_seq, loc.r_shift)
       IN  IF res.exc # ""
           THEN Fail("compute_sym", "PSeqTooShort") /\ UNCHANGED loc
           ELSE /\ loc' = [loc EXCEPT !.sym = res.sym, !.idx = res.idx]
                /\ Goto("compute_sym", "assemble")

\* An IndexError raised by compute_sym leaves main uncaught.
ComputeSym ==
    /\ pc = "compute_sym"
    /\ LET res == compute_sym(loc.T, loc.U, loc.year_full, loc.p_seq, loc.r_shift)
       IN  IF res.exc # ""
           THEN Uncaught(res.exc) /\ trace' = Append(trace, "compute_sym")
           ELSE /\ loc' = [loc EXCEPT !.sym = res.sym, !.idx = res.idx]
                /\ Goto("compute_sym", "assemble")

Assemble ==
    /\ pc = "assemble"
    /\ LET password ==
             IF args.classic
             THEN assemble_classic(loc.sstar, loc.sym, loc.Tcap, loc.L2, loc.Y2, loc.Ucap)
             ELSE assemble_interleaved(loc.sstar, loc.sym, loc.Tcap, loc.L2, loc.Y2,
                                       loc.Ucap, loc.idx, loc.syear)
       IN  /\ loc' = [loc EXCEPT !.password = password]
           /\ stdout' = password
    /\ rc' = EX_OK
    /\ pc' = "done"
    /\ trace' = Append(trace, "assemble")
    /\ UNCHANGED <<args, env, stderr, prev>>

\* The program is invoked a second time after a successful run, with the same
\* command line and environment except for --pool-size.
Rerun ==
    /\ pc = "done"
    /\ rc = EX_OK
    /\ ~prev.set
    /\ \E n \in PoolSizeArgs :
          /\ n # args.pool_size
          /\ args' = [args EXCEPT !.pool_size = n]
    /\ prev' = [set |-> TRUE, domain |-> args.domain, login |-> args.login,
                year |-> args.year, pool |-> loc.pool, pepper |-> loc.pepper,
                q_seq |-> loc.q_seq, p_seq |-> loc.p_seq, classic |-> args.classic,
                pool_size |-> args.pool_size, password |-> stdout]
    /\ pc' = "check_pool_size"
    /\ loc' = NoLocals
    /\ stdout' = <<>>
    /\ stderr' = <<>>
    /\ rc' = -1
    /\ trace' = <<>>
    /\ UNCHANGED env

Next ==
    \/ CheckPoolSize
    \/ ResolveSeqs
    \/ CheckYear
    \/ DeriveTags
    \/ GetPool
    \/ ask_pool_sstar
    \/ ask_pool_s0_and_build
    \/ CheckPoolLen
    \/ GetPepper
    \/ AskPepper
    \/ PepperToShift
    \/ ChoosePoolIndex
    \/ ComputeSym
    \/ Assemble
    \/ Rerun

Spec == Init /\ [][Next]_vars

---------------------------------------------------------------------------
(* The functions on their own: each specification below draws the          *)
(* arguments of one part of the derivation from a bounded set (pc = "call")*)
(* and applies the code to them (pc = "ret").                              *)

MaxDomainLen == 5   \* characters of a domain after its prefix
MaxLoginLen == 5    \* characters of a login
MaxYearLen == 5     \* characters of a year
MaxPepperLen == 3   \* characters of a pepper word
MaxSstarLen == 11   \* characters of a pool entry that is cut
MaxSyear == 10      \* digit sum of the year when a pool entry is cut
MaxS0Len == 5       \* characters of a raw base S0

\* All sequences over the set A of length at most n
RECURSIVE SeqsUpTo(_, _)
SeqsUpTo(A, n) ==
    IF n = 0 THEN {<<>>}
    ELSE LET shorter == SeqsUpTo(A, n - 1)
         IN  shorter \cup {Append(s, a) : s \in {t \in shorter : Len(t) = n - 1}, a \in A}

UnusedInCall ==
    /\ env = Environ([env |-> <<>>], [env |-> <<>>], [q_env |-> <<>>, p_env |-> <<>>])
    /\ stdout = <<>>
    /\ stderr = <<>>
    /\ trace = <<>>
    /\ prev = NoPrev

(* Year, site key, tags: lines 295-311 of main on (domain, login, year)    *)

DomainPrefixes ==
    { <<>>, <<" ">>, <<"\n", "\t">>, <<"h", "t", "t", "p", ":", "/", "/">>,
      <<"h", "t", "t", "p", "s", ":", "/", "/">> }
DomainInputs ==
    { pre \o body : pre \in DomainPrefixes, body \in SeqsUpTo({"a", "B", ".", "/"}, MaxDomainLen) }
LoginInputs == SeqsUpTo({"u", "Z", "@", "7"}, MaxLoginLen)
YearInputs ==
    SeqsUpTo({"1", "9"}, MaxYearLen) \cup {<<" ", "0", "7", " ">>, <<"2", "0", "o", "5">>}
    \cup {<<w, "2", "0", "0", "5", w>> : w \in Whitespace} \cup {<<"2", " ", "5">>}

TagInputs ==
    { <<d, UserGmail, <<"2", "0", "0", "5">> >> : d \in DomainInputs }
    \cup { <<YandexRu, l, <<"0", "5">> >> : l \in LoginInputs }
    \cup { <<YandexRu, UserGmail, y>> : y \in YearInputs }

InitTags ==
    /\ \E id \in TagInputs : args = [domain |-> id[1], login |-> id[2], year |-> id[3]]
    /\ pc = "call"
    /\ loc = NoLocals
    /\ rc = -1
    /\ UnusedInCall

TagsCall ==
    /\ pc = "call"
    /\ LET year_full == Strip(args.year)
           K == site_key(args.domain)
           T == tag4_from_key(K)
           U == u4_from_login(args.login)
       IN  IF ~YearMatches(year_full)
           THEN /\ loc' = [loc EXCEPT !.year_full = year_full]
                /\ stderr' = Append(stderr, "InvalidYearFormat")
                /\ rc' = EX_USAGE
           ELSE /\ loc' = [loc EXCEPT !.year_full = year_full,
                                      !.Y2 = LastN(year_full, 2),
                                      !.syear = sum_digits(year_full),
                                      !.K = K, !.Kletters = only_letters(K), !.T = T,
                                      !.Tcap = capitalize_1_3(T), !.L2 = l2_from_key(K),
                                      !.U = U, !.Ucap = capitalize_1_3(U),
                                      !.Uletters_full = only_letters(Split(args.login, "@")[1])]
                /\ rc' = EX_OK
                /\ UNCHANGED stderr
    /\ pc' = "ret"
    /\ UNCHANGED <<args, env, stdout, trace, prev>>

SpecTags == InitTags /\ [][TagsCall]_vars

(* Shift, pool index and symbol index: lines 355-362 of main               *)

PepperInputs == SeqsUpTo({"a", "z", "M", "1"}, MaxPepperLen)

InitSelect ==
    /\ \E id \in Identities, w \in PepperInputs, n \in MIN_POOL_SIZE..MAX_POOL_SIZE,
          p \in {P_DEFAULT, ShortP, LongP} :
          args = [domain |-> id[1], login |-> id[2], year |-> id[3],
                  pepper |-> w, pool_size |-> n, p_seq |-> p]
    /\ pc = "call"
    /\ loc = NoLocals
    /\ rc = -1
    /\ UnusedInCall

SelectCall ==
    /\ pc = "call"
    /\ LET K == site_key(args.domain)
           T == tag4_from_key(K)
           U == u4_from_login(args.login)
           Uletters_full == only_letters(Split(args.login, "@")[1])
           r_shift == pepper_to_shift(args.pepper, args.pool_size)
           i == choose_pool_index(only_letters(K), Uletters_full, r_shift, args.pool_size)
           res == compute_sym(T, U, Strip(args.year), args.p_seq, r_shift)
       IN  /\ loc' = [loc EXCEPT !.K = K, !.Kletters = only_letters(K), !.T = T, !.U = U,
                                 !.Uletters_full = Uletters_full, !.r_shift = r_shift,
                                 !.i = i, !.sym = res.sym,
                                 !.idx = IF res.exc = "" THEN res.idx ELSE -1]
           /\ rc' = IF res.exc = "" THEN EX_OK ELSE 1
    /\ pc' = "ret"
    /\ UNCHANGED <<args, env, stdout, stderr, trace, prev>>

SpecSelect == InitSelect /\ [][SelectCall]_vars

(* cut_sstar_for_interleave(sstar, idx, syear)                             *)

CutText == <<"G", "a", "m", "m", "a", "2", "3", "4", "5", "6", "x", "Y", "z", "0", "W">>

InitCut ==
    /\ \E n \in 0..MaxSstarLen, idx \in 0..9, syear \in 0..MaxSyear :
          args = [sstar |-> SubSeq(CutText, 1, Min(n, Len(CutText))), idx |-> idx, syear |-> syear]
    /\ pc = "call"
    /\ loc = <<>>
    /\ rc = -1
    /\ UnusedInCall

CutCall ==
    /\ pc = "call"
    /\ loc' = cut_sstar_for_interleave(args.sstar, args.idx, args.syear)
    /\ pc' = "ret"
    /\ UNCHANGED <<args, env, stdout, stderr, rc, trace, prev>>

SpecCut == InitCut /\ [][CutCall]_vars

(* build_strengthened_base(s0, q_seq)                                      *)

S0Inputs == SeqsUpTo({"a", "B", "7"}, MaxS0Len)
QInputs == { <<"!">>, ShortQ, <<"q", "Z", "#">>, Q_DEFAULT }

InitStrengthen ==
    /\ \E s0 \in S0Inputs, q \in QInputs : args = [s0 |-> s0, q_seq |-> q]
    /\ pc = "call"
    /\ loc = <<>>
    /\ rc = -1
    /\ UnusedInCall

StrengthenCall ==
    /\ pc = "call"
    /\ loc' = build_strengthened_base(args.s0, args.q_seq)
    /\ pc' = "ret"
    /\ UNCHANGED <<args, env, stdout, stderr, rc, trace, prev>>

SpecStrengthen == InitStrengthen /\ [][StrengthenCall]_vars

---------------------------------------------------------------------------
(* Properties                                                              *)

Done == pc = "done"
\* the last diagnostic on standard error, "" if there is none
LastDiag == IF stderr = <<>> THEN "" ELSE stderr[Len(stderr)]
Returned == pc = "ret"

\* The worked scenario: yandex.ru, user@gmail.com, 2005, a pool of the three
\* entries Alpha12345, Beta678901, Gamma23456, pepper "pepper", default Q and P.
ScenarioRun ==
    /\ Done
    /\ args.domain = YandexRu
    /\ args.login = UserGmail
    /\ args.year = <<"2", "0", "0", "5">>
    /\ args.pool_size = 3
    /\ loc.pool = MemoPool(3)
    /\ loc.pepper = PepperWord
    /\ loc.q_seq = Q_DEFAULT
    /\ loc.p_seq = P_DEFAULT

ScenarioClassic ==
    <<"G", "a", "m", "m", "a", "2", "3", "4", "5", "6", "&", "Y", "a", "E", "x",
      "0", "6", "0", "5", "U", "s", "E", "r">>
ScenarioInterleaved ==
    <<"&", "G", "a", "m", "m", "Y", "a", "E", "x", "a", "2", "3", "0", "6", "4",
      "5", "6", "0", "5", "U", "s", "E", "r">>

\* C1: the run of the worked scenario succeeds with r = 1, pool index 2,
\* symbol index 6, SYM = '&', the cut Gamm | a23 | 456, and prints
\* Gamma23456&YaEx0605UsEr (classic) or &GammYaExa230645605UsEr (interleaved).
C1_WorkedScenario ==
    ScenarioRun =>
        /\ rc = EX_OK
        /\ loc.r_shift = 1
        /\ loc.i = 2
        /\ loc.idx = 6
        /\ loc.sym = "&"
        /\ cut_sstar_for_interleave(loc.sstar, loc.idx, loc.syear)
              = << <<"G", "a", "m", "m">>, <<"a", "2", "3">>, <<"4", "5", "6">> >>
        /\ stdout = IF args.classic THEN ScenarioClassic ELSE ScenarioInterleaved

C1_Witness == ScenarioRun /\ ~args.classic /\ stdout = ScenarioInterleaved

\* C2: a successful run that agrees with the previous successful run on
\* domain, login, year, pool, pepper, Q, P and mode prints the same password.
C2_Determinism ==
    ( /\ Done /\ rc = EX_OK /\ prev.set
      /\ prev.domain = args.domain /\ prev.login = args.login /\ prev.year = args.year
      /\ prev.pool = loc.pool /\ prev.pepper = loc.pepper
      /\ prev.q_seq = loc.q_seq /\ prev.p_seq = loc.p_seq
      /\ prev.classic = args.classic )
    => stdout = prev.password

\* C3: with a pool size in 3..8 the shift and the pool index lie in
\* 0..pool_size-1, and a symbol index that compute_sym returns lies in 0..9.
C3_IndexBounds ==
    Returned =>
        /\ 0 <= loc.r_shift /\ loc.r_shift < args.pool_size
        /\ 0 <= loc.i /\ loc.i < args.pool_size
        /\ rc = EX_OK => (0 <= loc.idx /\ loc.idx < 10)

\* the shift, the pool index and the symbol index all at their upper end
C3_Witness ==
    /\ Returned /\ rc = EX_OK
    /\ loc.r_shift = args.pool_size - 1
    /\ loc.i = args.pool_size - 1
    /\ loc.idx = 9

\* C4: the three segments of the cut concatenate to S*, the first is at most
\* d1 = (idx mod 4) + 2 long with d1 in 2..5, the second at most
\* d2 = (syear mod 3) + 2 long with d2 in 2..4.
C4_SegmentCoverage ==
    Returned =>
        LET d1 == (args.idx % 4) + 2
            d2 == (args.syear % 3) + 2
        IN  /\ loc[1] \o loc[2] \o loc[3] = args.sstar
            /\ d1 \in 2..5 /\ Len(loc[1]) <= d1
            /\ d2 \in 2..4 /\ Len(loc[2]) <= d2

\* a pool entry shorter than d1 + d2 but longer than d1: S2 is cut short
C4_Witness ==
    /\ Returned
    /\ Len(args.sstar) > (args.idx % 4) + 2
    /\ Len(args.sstar) < (args.idx % 4) + 2 + (args.syear % 3) + 2
    /\ loc[2] # <<>>
    /\ loc[3] = <<>>

\* C5: for a year of 2 to 4 digits, T and U are 4 characters long and L2 and
\* Y2 are 2 characters long.
C5_TagWidth ==
    (Returned /\ rc = EX_OK) =>
        /\ Len(loc.T) = 4
        /\ Len(loc.U) = 4
        /\ Len(loc.L2) = 2
        /\ Len(loc.Y2) = 2

\* a site key with one to three letters: T is padded with 'x'
C5_Witness ==
    /\ Returned /\ rc = EX_OK
    /\ Len(only_letters(loc.K)) \in 1..3
    /\ loc.T[4] = "x"

\* C6: a run that the user does not interrupt ends by printing a password
\* and returning 0, or by printing a diagnostic and returning 2; no run ends
\* with an uncaught exception.
C6_NoUncontrolledFault ==
    Done =>
        \/ rc = EX_OK /\ stdout # <<>> /\ stdout = loc.password
        \/ rc = EX_USAGE /\ stdout = <<>>
             /\ LastDiag \in {"PoolSizeOutOfRange", "InvalidYearFormat", "PoolNotGiven",
                              "PoolUnderfilled", "EmptyPepper"}
        \/ rc = EX_INTERRUPT /\ stdout = <<>> /\ LastDiag = "Interrupted"

ValidationSteps == {"check_pool_size", "check_year", "get_pool", "check_pool_len", "get_pepper"}
SelectionSteps == {"pepper_to_shift", "choose_pool_index", "compute_sym", "assemble"}
DerivationSteps == {"derive_tags"} \cup SelectionSteps

\* No step of the set late follows a step of the set early in the run so far.
NeverAfter(early, late) ==
    \A m \in 1..Len(trace), n \in 1..Len(trace) :
        m < n => ~(trace[m] \in early /\ trace[n] \in late)

\* C7: no validation check follows a derivation step (site key, tags, L2,
\* shift, pool index, symbol index, assembly), and a run that ends with a
\* validation error has performed no derivation step.
C7_ValidationUpfront ==
    /\ NeverAfter(DerivationSteps, ValidationSteps)
    /\ (Done /\ rc = EX_USAGE) => Range(trace) \cap DerivationSteps = {}

\* C7 as amended: the pool-size and year checks precede the site key, tags and
\* L2; every validation check precedes the shift, the pool index, the symbol
\* index and the assembly; a run that ends with a validation error has
\* performed none of these four.
C7_ValidationBeforeSelection ==
    /\ NeverAfter({"derive_tags"}, {"check_pool_size", "check_year"})
    /\ NeverAfter(SelectionSteps, ValidationSteps)
    /\ Range(trace) \cap SelectionSteps # {} => ValidationSteps \subseteq Range(trace)
    /\ (Done /\ rc = EX_USAGE) => Range(trace) \cap SelectionSteps = {}

\* a run that computed the tags and then ended on the empty pepper
C7_Witness ==
    /\ Done /\ rc = EX_USAGE /\ LastDiag = "EmptyPepper"
    /\ "derive_tags" \in Range(trace)
    /\ loc.T # <<>>

\* C8: a run that has selected the pool index selected it from a pool of
\* exactly pool_size entries.
C8_PoolSizeExact ==
    "choose_pool_index" \in Range(trace) => Len(loc.pool) = args.pool_size

\* The dot-separated labels of the host part of a domain
HostLabels(domain) == Split(Split(StripScheme(Lower(Strip(domain))), "/")[1], ".")

\* C9: the site key of a non-empty domain is non-empty.
C9_SiteKeyNonEmpty ==
    (Returned /\ rc = EX_OK /\ args.domain # <<>>) => loc.K # <<>>

\* The host part of a domain: stripped of surrounding whitespace, lowercased,
\* without a leading http:// or https://, cut at the first '/'.
HostPart(domain) == Split(StripScheme(Lower(Strip(domain))), "/")[1]
DotsOf(h) == {n \in 1..Len(h) : h[n] = "."}
LastDot(D) == CHOOSE n \in D : \A m \in D : m <= n
\* The label that site_key selects is empty: the host part is empty, or has
\* one dot and begins with it, or its last two dots are adjacent.
SelectedLabelEmpty(h) ==
    IF DotsOf(h) = {} THEN h = <<>>
    ELSE LET last   == LastDot(DotsOf(h))
             before == DotsOf(h) \ {last}
         IN  IF before = {} THEN last = 1 ELSE LastDot(before) = last - 1

\* C9 as amended: the site key is the second-to-last dot-separated label of
\* the host part, or the only label; it is empty exactly when that label is
\* empty (the host part is empty, or has one dot and begins with it, or its
\* last two dots are adjacent) and non-empty otherwise; it holds no '.', no
\* '/' and no upper-case letter.
C9_SiteKeyIsSelectedLabel ==
    LET labels == HostLabels(args.domain)
    IN  (Returned /\ rc = EX_OK) =>
            /\ loc.K = IF Len(labels) >= 2 THEN labels[Len(labels) - 1] ELSE labels[1]
            /\ (loc.K = <<>>) <=> SelectedLabelEmpty(HostPart(args.domain))
            /\ Range(loc.K) \cap ({".", "/"} \cup Range(UpperCase)) = {}

\* a domain with a scheme, an upper-case letter and a path whose host part
\* ends with an empty label, and whose site key is non-empty all the same
C9_Witness ==
    /\ Returned /\ rc = EX_OK
    /\ StartsWith(args.domain, <<"h", "t", "t", "p">>)
    /\ Len(HostLabels(args.domain)) = 2
    /\ HostLabels(args.domain)[2] = <<>>
    /\ "B" \in Range(args.domain)
    /\ args.domain[Len(args.domain)] = "/"
    /\ ~SelectedLabelEmpty(HostPart(args.domain))
    /\ loc.K # <<>>

\* The places of S0 that get a Q character in front: a letter that is first,
\* or follows a non-letter, or follows a letter of the other case.
InsertPoints(s0) ==
    { j \in 1..Len(s0) :
        /\ is_letter(s0[j])
        /\ \/ j = 1
           \/ ~is_letter(s0[j - 1])
           \/ is_upper(s0[j - 1]) # is_upper(s0[j]) }
InsertsUpTo(s0, j) == Cardinality({k \in InsertPoints(s0) : k <= j})

\* C10: S* is S0 with one Q character in front of each insert point, the k-th
\* insertion (from 0) being Q[k mod len(Q)], and nothing else changed; so S*
\* is at least as long as S0, and longer when S0 has an insert point.
C10_Strengthening ==
    Returned =>
        LET s0 == args.s0
            q  == args.q_seq
        IN  /\ Len(loc) = Len(s0) + Cardinality(InsertPoints(s0))
            /\ \A j \in 1..Len(s0) :
                  /\ loc[j + InsertsUpTo(s0, j)] = s0[j]
                  /\ j \in InsertPoints(s0) =>
                        loc[j + InsertsUpTo(s0, j) - 1]
                           = q[((InsertsUpTo(s0, j) - 1) % Len(q)) + 1]
            /\ Len(loc) >= Len(s0)
            /\ InsertPoints(s0) # {} => Len(loc) > Len(s0)

\* more insertions than Q has characters, and a letter without insertion
C10_Witness ==
    /\ Returned
    /\ Len(args.q_seq) >= 2
    /\ Cardinality(InsertPoints(args.s0)) > Len(args.q_seq)
    /\ \E j \in 1..Len(args.s0) : is_letter(args.s0[j]) /\ j \notin InsertPoints(args.s0)

===========================================================================
